---- MODULE Spec2Model ----
\* Learning Progress Engine of vocabin-backend: the UserWordProgress document
\* (spaced repetition and mastery scoring), the WrongWords document (review
\* priority, urgency score, automatic resolution), and the controller that
\* applies them to the stored documents of each user.
\*
\* Conventions of the model
\*   * A document is a record; a schema method is an operator from a document
\*     (and the method's arguments) to the document after the method's save.
\*   * Dates are integers counted in clock units, DayUnits units to a day.
\*     NullDate stands for null.
\*   * JavaScript numbers that are not integers are kept exactly: a quotient
\*     is a reduced fraction <<numerator, denominator>>, and ease_factor,
\*     which only ever moves in steps of 0.15 from 2.5, is counted in
\*     hundredths (250 is 2.5, 130 is 1.3).
\*     A double that has drifted one ulp below such a value rounds an exact
\*     x.5 product down where the exact value rounds up (6 x 3.25 after three
\*     additions of 0.15 and 0.3); the model rounds the exact value.
\*   * userDifficulty null is NoDifficulty, which is 0: the code tests the
\*     argument by truthiness, so null and 0 behave alike.
\*   * The controller works on three collections, userDictionaries,
\*     wordProgresses and wrongWords.  A request handler is one action, except
\*     in SpecRace, where submitWordAnswer is one action per await and save()
\*     writes only the paths the request changed.
EXTENDS Integers, Sequences, FiniteSets, TLC

VARIABLES progress, wrongWord, now,
          userDictionaries, wordProgresses, wrongWords, response, served,
          inflight

vars == <<progress, wrongWord, now,
          userDictionaries, wordProgresses, wrongWords, response, served,
          inflight>>

\* the two single documents driven directly through their schema methods
docVars == <<progress, wrongWord>>

\* the three collections and the HTTP exchange of the controller
storeVars == <<userDictionaries, wordProgresses, wrongWords, response, served,
               inflight>>

-----------------------------------------------------------------------------
\* Bounds of the exploration

MaxAttempts == 8

MaxRatedAttempts == 5

MaxErrors == 5

MaxReviews == 6

MaxNow == 18

TickStep == 9

DayUnits == 2

ResponseTimes == {1500}

UserAnswers == {"guess"}

NoDifficulty == 0

Difficulties == 0..5

\* the ratings sent with submitWordAnswer: none, or 4
SubmitDifficulties == {NoDifficulty, 4}

NullDate == -1

\* schema method calls on the two single documents taken together
MaxEngineOps == 4

\* requests served by the controller in one exploration
MaxRequests == 4

\* clock units the controller explorations let pass, one at a time
MaxElapsed == 2

\* words in each dictionary file
TotalWords == 2

Users == {"alice", "bob"}

Dictionaries == {"cet4", "cet6"}

Words == {"apple"}

\* submitWordAnswer requests that can be in progress at the same time
Slots == {1, 2}

\* the limit parameter of getWrongWords
Limits == {1, 2}

\* the dictionaryId of a getWrongWords request: absent, a dictionary's id, or
\* a string that is not 24 hexadecimal digits
NoDictionary == "none"
InvalidDictionaryId == "not-an-id"
DictionaryFilters == Dictionaries \cup {NoDictionary, InvalidDictionaryId}

\* the currentPosition of an updateProgress request: absent, or a number
\* from below 0 to above total_words
NoPosition == -2
Positions == {NoPosition} \cup (-1..(TotalWords + 1))

\* the sortBy of a getWrongWords request; 'recent' stands for the options
\* that run the query (recent, priority, error_count, alphabetical)
SortOptions == {"urgency", "recent"}

\* request bodies of updateLearningNotes
NoteUpdates == { [user_notes |-> "note"], [mnemonic |-> "hint", user_notes |-> ""] }

-----------------------------------------------------------------------------
\* Arithmetic helpers

Max(a, b) == IF a >= b THEN a ELSE b

RECURSIVE GCD(_, _)
GCD(a, b) == IF b = 0 THEN a ELSE GCD(b, a % b)

Abs(a) == IF a >= 0 THEN a ELSE -a

\* the number n / d (d > 0) as a reduced fraction
Ratio(n, d) ==
  LET g == GCD(Abs(n), d)
  IN IF n >= 0 THEN <<n \div g, d \div g>> ELSE <<-(Abs(n) \div g), d \div g>>

\* q >= k for a fraction q and an integer k
RatioGeq(q, k) == q[1] >= k * q[2]

\* p >= q for two quotients with positive denominators
RatioOrder(p, q) == p[1] * q[2] >= q[1] * p[2]

RECURSIVE SumResponseTime(_)
SumResponseTime(h) ==
  IF h = <<>> THEN 0 ELSE h[1].response_time + SumResponseTime(Tail(h))

\* Math.round of (i * e / 100) for non-negative operands: half rounds up
RoundHundredths(x) == (x + 50) \div 100

-----------------------------------------------------------------------------
\* UserWordProgress

\* the schema defaults: a document constructed with no counters given
ZeroProgress ==
  [ correct_attempts |-> 0,
    wrong_attempts |-> 0,
    mastery_level |-> 0,
    is_mastered |-> FALSE,
    difficulty_rating |-> 3,
    last_reviewed |-> 0,
    next_review |-> 0,
    spaced_repetition |-> [interval |-> 1, ease_factor |-> 250, repetition |-> 0],
    learning_history |-> <<>>,
    performance_metrics |->
      [ average_response_time |-> <<0, 1>>,
        accuracy_rate |-> <<0, 1>>,
        consecutive_correct |-> 0,
        consecutive_wrong |-> 0,
        last_streak |-> 0 ] ]

total_attempts(doc) == doc.correct_attempts + doc.wrong_attempts

updatePerformanceMetrics(doc) ==
  LET total == total_attempts(doc)
      pm == doc.performance_metrics
      len == Len(doc.learning_history)
      acc == IF total > 0 THEN Ratio(doc.correct_attempts * 100, total)
                          ELSE pm.accuracy_rate
      avg == IF len > 0 THEN Ratio(SumResponseTime(doc.learning_history), len)
                        ELSE pm.average_response_time
  IN [doc EXCEPT !.performance_metrics =
        [pm EXCEPT !.accuracy_rate = acc,
                   !.average_response_time = avg,
                   !.last_streak = Max(pm.consecutive_correct, pm.consecutive_wrong)]]

\* updateSpacedRepetition that counts the repetition before choosing the interval
updateSpacedRepetitionCountFirst(doc, isCorrect, userDifficulty, t) ==
  LET sr == doc.spaced_repetition
      sr1 == IF isCorrect
             THEN [sr EXCEPT !.interval =
                       IF sr.repetition + 1 = 0 THEN 1
                       ELSE IF sr.repetition + 1 = 1 THEN 6
                       ELSE RoundHundredths(sr.interval * sr.ease_factor),
                     !.repetition = sr.repetition + 1]
             ELSE [sr EXCEPT !.repetition = 0, !.interval = 1]
      sr2 == IF userDifficulty # NoDifficulty
             THEN [sr1 EXCEPT !.ease_factor =
                     Max(130, sr1.ease_factor + (3 - userDifficulty) * 15)]
             ELSE sr1
  IN [doc EXCEPT !.spaced_repetition = sr2,
                 !.next_review = t + sr2.interval * DayUnits]

\* updateSpacedRepetition that adjusts ease_factor before it grows the interval
updateSpacedRepetitionEaseFirst(doc, isCorrect, userDifficulty, t) ==
  LET sr == doc.spaced_repetition
      sr0 == IF userDifficulty # NoDifficulty
             THEN [sr EXCEPT !.ease_factor =
                     Max(130, sr.ease_factor + (3 - userDifficulty) * 15)]
             ELSE sr
      sr2 == IF isCorrect
             THEN [sr0 EXCEPT !.interval =
                       IF sr0.repetition = 0 THEN 1
                       ELSE IF sr0.repetition = 1 THEN 6
                       ELSE RoundHundredths(sr0.interval * sr0.ease_factor),
                     !.repetition = sr0.repetition + 1]
             ELSE [sr0 EXCEPT !.repetition = 0, !.interval = 1]
  IN [doc EXCEPT !.spaced_repetition = sr2,
                 !.next_review = t + sr2.interval * DayUnits]

\* updateSpacedRepetition with the Math.max(1.3, ...) floor left out
updateSpacedRepetitionNoFloor(doc, isCorrect, userDifficulty, t) ==
  LET sr == doc.spaced_repetition
      sr1 == IF isCorrect
             THEN [sr EXCEPT !.interval =
                       IF sr.repetition = 0 THEN 1
                       ELSE IF sr.repetition = 1 THEN 6
                       ELSE RoundHundredths(sr.interval * sr.ease_factor),
                     !.repetition = sr.repetition + 1]
             ELSE [sr EXCEPT !.repetition = 0, !.interval = 1]
      sr2 == IF userDifficulty # NoDifficulty
             THEN [sr1 EXCEPT !.ease_factor = sr1.ease_factor + (3 - userDifficulty) * 15]
             ELSE sr1
  IN [doc EXCEPT !.spaced_repetition = sr2,
                 !.next_review = t + sr2.interval * DayUnits]

\* updateSpacedRepetition that restarts an incorrect word at interval 0
updateSpacedRepetitionZeroInterval(doc, isCorrect, userDifficulty, t) ==
  LET sr == doc.spaced_repetition
      sr1 == IF isCorrect
             THEN [sr EXCEPT !.interval =
                       IF sr.repetition = 0 THEN 1
                       ELSE IF sr.repetition = 1 THEN 6
                       ELSE RoundHundredths(sr.interval * sr.ease_factor),
                     !.repetition = sr.repetition + 1]
             ELSE [sr EXCEPT !.repetition = 0, !.interval = 0]
      sr2 == IF userDifficulty # NoDifficulty
             THEN [sr1 EXCEPT !.ease_factor =
                     Max(130, sr1.ease_factor + (3 - userDifficulty) * 15)]
             ELSE sr1
  IN [doc EXCEPT !.spaced_repetition = sr2,
                 !.next_review = t + sr2.interval * DayUnits]

updateSpacedRepetition(doc, isCorrect, userDifficulty, t) ==
  LET sr == doc.spaced_repetition
      sr1 == IF isCorrect
             THEN [sr EXCEPT !.interval =
                       IF sr.repetition = 0 THEN 1
                       ELSE IF sr.repetition = 1 THEN 6
                       ELSE RoundHundredths(sr.interval * sr.ease_factor),
                     !.repetition = sr.repetition + 1]
             ELSE [sr EXCEPT !.repetition = 0, !.interval = 1]
      sr2 == IF userDifficulty # NoDifficulty
             THEN [sr1 EXCEPT !.ease_factor =
                     Max(130, sr1.ease_factor + (3 - userDifficulty) * 15)]
             ELSE sr1
  IN [doc EXCEPT !.spaced_repetition = sr2,
                 !.next_review = t + sr2.interval * DayUnits]

\* updateMasteryLevel with the decay test written > 3 instead of >= 3
updateMasteryLevelLateDecay(doc) ==
  LET accuracy == doc.performance_metrics.accuracy_rate
      consecutiveCorrect == doc.performance_metrics.consecutive_correct
      total == total_attempts(doc)
      d1 == IF total >= 5 /\ RatioGeq(accuracy, 90) /\ consecutiveCorrect >= 3
              THEN [doc EXCEPT !.mastery_level = 5, !.is_mastered = TRUE]
            ELSE IF total >= 4 /\ RatioGeq(accuracy, 80) /\ consecutiveCorrect >= 2
              THEN [doc EXCEPT !.mastery_level = 4]
            ELSE IF total >= 3 /\ RatioGeq(accuracy, 70)
              THEN [doc EXCEPT !.mastery_level = 3]
            ELSE IF total >= 2 /\ RatioGeq(accuracy, 50)
              THEN [doc EXCEPT !.mastery_level = 2]
            ELSE IF total >= 1
              THEN [doc EXCEPT !.mastery_level = 1]
            ELSE doc
  IN IF d1.performance_metrics.consecutive_wrong > 3
       THEN [d1 EXCEPT !.mastery_level = Max(0, d1.mastery_level - 1),
                       !.is_mastered = FALSE]
       ELSE d1

\* updateMasteryLevel that never lets an attempt lower the level it found
updateMasteryLevelKeepsHigher(doc) ==
  LET accuracy == doc.performance_metrics.accuracy_rate
      consecutiveCorrect == doc.performance_metrics.consecutive_correct
      total == total_attempts(doc)
      level == IF total >= 5 /\ RatioGeq(accuracy, 90) /\ consecutiveCorrect >= 3 THEN 5
               ELSE IF total >= 4 /\ RatioGeq(accuracy, 80) /\ consecutiveCorrect >= 2 THEN 4
               ELSE IF total >= 3 /\ RatioGeq(accuracy, 70) THEN 3
               ELSE IF total >= 2 /\ RatioGeq(accuracy, 50) THEN 2
               ELSE IF total >= 1 THEN 1
               ELSE doc.mastery_level
      d1 == [doc EXCEPT !.mastery_level = Max(@, level),
                        !.is_mastered = IF level = 5 THEN TRUE ELSE @]
  IN IF d1.performance_metrics.consecutive_wrong >= 3
       THEN [d1 EXCEPT !.mastery_level = Max(0, d1.mastery_level - 1),
                       !.is_mastered = FALSE]
       ELSE d1

updateMasteryLevel(doc) ==
  LET accuracy == doc.performance_metrics.accuracy_rate
      consecutiveCorrect == doc.performance_metrics.consecutive_correct
      total == total_attempts(doc)
      d1 == IF total >= 5 /\ RatioGeq(accuracy, 90) /\ consecutiveCorrect >= 3
              THEN [doc EXCEPT !.mastery_level = 5, !.is_mastered = TRUE]
            ELSE IF total >= 4 /\ RatioGeq(accuracy, 80) /\ consecutiveCorrect >= 2
              THEN [doc EXCEPT !.mastery_level = 4]
            ELSE IF total >= 3 /\ RatioGeq(accuracy, 70)
              THEN [doc EXCEPT !.mastery_level = 3]
            ELSE IF total >= 2 /\ RatioGeq(accuracy, 50)
              THEN [doc EXCEPT !.mastery_level = 2]
            ELSE IF total >= 1
              THEN [doc EXCEPT !.mastery_level = 1]
            ELSE doc
  IN IF d1.performance_metrics.consecutive_wrong >= 3
       THEN [d1 EXCEPT !.mastery_level = Max(0, d1.mastery_level - 1),
                       !.is_mastered = FALSE]
       ELSE d1

\* recordAttempt that leaves the opposite streak counter as it was
recordAttemptKeepsStreaks(doc, isCorrect, responseTime, userDifficulty, t) ==
  LET pm == doc.performance_metrics
      d1 == IF isCorrect
            THEN [doc EXCEPT !.correct_attempts = @ + 1,
                             !.performance_metrics =
                               [pm EXCEPT !.consecutive_correct = @ + 1]]
            ELSE [doc EXCEPT !.wrong_attempts = @ + 1,
                             !.performance_metrics =
                               [pm EXCEPT !.consecutive_wrong = @ + 1]]
      d2 == [d1 EXCEPT !.learning_history = Append(@,
               [ attempt_date |-> t,
                 was_correct |-> isCorrect,
                 response_time |-> responseTime,
                 difficulty_after |-> IF userDifficulty # NoDifficulty
                                      THEN userDifficulty
                                      ELSE doc.difficulty_rating ])]
      d3 == updatePerformanceMetrics(d2)
      d4 == updateSpacedRepetition(d3, isCorrect, userDifficulty, t)
      d5 == updateMasteryLevel(d4)
  IN [d5 EXCEPT !.last_reviewed = t]

recordAttempt(doc, isCorrect, responseTime, userDifficulty, t) ==
  LET pm == doc.performance_metrics
      d1 == IF isCorrect
            THEN [doc EXCEPT !.correct_attempts = @ + 1,
                             !.performance_metrics =
                               [pm EXCEPT !.consecutive_correct = @ + 1,
                                          !.consecutive_wrong = 0]]
            ELSE [doc EXCEPT !.wrong_attempts = @ + 1,
                             !.performance_metrics =
                               [pm EXCEPT !.consecutive_wrong = @ + 1,
                                          !.consecutive_correct = 0]]
      d2 == [d1 EXCEPT !.learning_history = Append(@,
               [ attempt_date |-> t,
                 was_correct |-> isCorrect,
                 response_time |-> responseTime,
                 difficulty_after |-> IF userDifficulty # NoDifficulty
                                      THEN userDifficulty
                                      ELSE doc.difficulty_rating ])]
      d3 == updatePerformanceMetrics(d2)
      d4 == updateSpacedRepetition(d3, isCorrect, userDifficulty, t)
      d5 == updateMasteryLevel(d4)
  IN [d5 EXCEPT !.last_reviewed = t]

\* resetProgress that leaves performance_metrics as they were
resetProgressKeepsMetrics(doc, t) ==
  [doc EXCEPT !.correct_attempts = 0,
              !.wrong_attempts = 0,
              !.mastery_level = 0,
              !.is_mastered = FALSE,
              !.spaced_repetition = [interval |-> 1, ease_factor |-> 250, repetition |-> 0],
              !.next_review = t,
              !.learning_history = <<>>]

\* resetProgress that forgets to zero wrong_attempts
resetProgressKeepsWrong(doc, t) ==
  [doc EXCEPT !.correct_attempts = 0,
              !.mastery_level = 0,
              !.is_mastered = FALSE,
              !.spaced_repetition = [interval |-> 1, ease_factor |-> 250, repetition |-> 0],
              !.next_review = t,
              !.learning_history = <<>>,
              !.performance_metrics =
                [ average_response_time |-> <<0, 1>>,
                  accuracy_rate |-> <<0, 1>>,
                  consecutive_correct |-> 0,
                  consecutive_wrong |-> 0,
                  last_streak |-> 0 ]]

resetProgress(doc, t) ==
  [doc EXCEPT !.correct_attempts = 0,
              !.wrong_attempts = 0,
              !.mastery_level = 0,
              !.is_mastered = FALSE,
              !.spaced_repetition = [interval |-> 1, ease_factor |-> 250, repetition |-> 0],
              !.next_review = t,
              !.learning_history = <<>>,
              !.performance_metrics =
                [ average_response_time |-> <<0, 1>>,
                  accuracy_rate |-> <<0, 1>>,
                  consecutive_correct |-> 0,
                  consecutive_wrong |-> 0,
                  last_streak |-> 0 ]]

\* markAsMastered that also moves the schedule to the 30-day interval
markAsMasteredReschedules(doc, t) ==
  [doc EXCEPT !.mastery_level = 5,
              !.is_mastered = TRUE,
              !.spaced_repetition = [@ EXCEPT !.interval = 30],
              !.next_review = t + 30 * DayUnits]

markAsMastered(doc, t) ==
  [doc EXCEPT !.mastery_level = 5,
              !.is_mastered = TRUE,
              !.next_review = t + 30 * DayUnits]

-----------------------------------------------------------------------------
\* WrongWords

\* new WrongWords({...}) at time t: the schema defaults, not yet saved
NewWrongWord(t) ==
  [ isNew |-> TRUE,
    error_count |-> 1,
    last_wrong_date |-> t,
    first_wrong_date |-> t,
    review_priority |-> 1,
    is_resolved |-> FALSE,
    resolved_date |-> NullDate,
    error_details |-> <<>>,
    review_history |-> <<>>,
    learning_notes |->
      [ user_notes |-> "",
        mnemonic |-> "",
        difficulty_reason |-> "",
        personal_example |-> "" ] ]

\* Array.prototype.slice(-n): the last n elements, or all when fewer
SliceLast(s, n) ==
  IF Len(s) <= n THEN s ELSE SubSeq(s, Len(s) - n + 1, Len(s))

RECURSIVE CountSuccessful(_)
CountSuccessful(h) ==
  IF h = <<>> THEN 0
  ELSE (IF h[1].was_successful THEN 1 ELSE 0) + CountSuccessful(Tail(h))

\* Math.floor((t - last_wrong_date) / one day)
days_since_last_error(doc, t) == (t - doc.last_wrong_date) \div DayUnits

total_review_attempts(doc) == Len(doc.review_history)

\* Math.round(rate * 100 * 100) / 100, counted in hundredths of a percent
successful_review_rate(doc) ==
  LET len == Len(doc.review_history)
      ok == CountSuccessful(doc.review_history)
  IN IF len = 0 THEN 0 ELSE (2 * ok * 10000 + len) \div (2 * len)

\* the urgency_score virtual, counted in hundredths
urgency_score(doc, t) ==
  LET score == (doc.review_priority * 20
                + doc.error_count * 10
                + Max(0, 7 - days_since_last_error(doc, t)) * 5) * 100
               - successful_review_rate(doc)
  IN Max(0, score)

\* the $match stage of findByUrgency (one user's stored documents)
findByUrgencyMatch(doc) == ~doc.isNew /\ doc.is_resolved = FALSE

\* the three $addFields stages of findByUrgency applied to one document
findByUrgency(doc, t) ==
  LET days == (t - doc.last_wrong_date) \div DayUnits
      successful_review_count == CountSuccessful(doc.review_history)
      total_review_count == Len(doc.review_history)
      base == doc.review_priority * 20 + doc.error_count * 10
              + Max(0, 7 - days) * 5
  IN [ days_since_last_error |-> days,
       successful_review_rate |->
         IF total_review_count = 0 THEN <<0, 1>>
         ELSE Ratio(successful_review_count * 100, total_review_count),
       urgency_score |->
         IF total_review_count = 0 THEN <<base, 1>>
         ELSE Ratio(base * total_review_count - successful_review_count * 100,
                    total_review_count) ]

\* addError whose middle threshold is written > 3 instead of >= 3
addErrorLateThreshold(doc, userAnswer, correctAnswer, errorType, t) ==
  LET count == doc.error_count + 1
      d1 == [doc EXCEPT !.error_count = count,
                        !.last_wrong_date = t,
                        !.review_priority =
                          IF count >= 5 THEN 5
                          ELSE IF count > 3 THEN 4
                          ELSE IF count >= 2 THEN 3
                          ELSE @,
                        !.error_details = Append(@,
                          [ error_date |-> t,
                            user_answer |-> userAnswer,
                            correct_answer |-> correctAnswer,
                            error_type |-> errorType ])]
      d2 == IF d1.is_resolved
            THEN [d1 EXCEPT !.is_resolved = FALSE, !.resolved_date = NullDate]
            ELSE d1
  IN [d2 EXCEPT !.isNew = FALSE]

\* addError without the block that reopens a resolved document
addErrorNoReopen(doc, userAnswer, correctAnswer, errorType, t) ==
  LET count == doc.error_count + 1
      d1 == [doc EXCEPT !.error_count = count,
                        !.last_wrong_date = t,
                        !.review_priority =
                          IF count >= 5 THEN 5
                          ELSE IF count >= 3 THEN 4
                          ELSE IF count >= 2 THEN 3
                          ELSE @,
                        !.error_details = Append(@,
                          [ error_date |-> t,
                            user_answer |-> userAnswer,
                            correct_answer |-> correctAnswer,
                            error_type |-> errorType ])]
  IN [d1 EXCEPT !.isNew = FALSE]

addError(doc, userAnswer, correctAnswer, errorType, t) ==
  LET count == doc.error_count + 1
      d1 == [doc EXCEPT !.error_count = count,
                        !.last_wrong_date = t,
                        !.review_priority =
                          IF count >= 5 THEN 5
                          ELSE IF count >= 3 THEN 4
                          ELSE IF count >= 2 THEN 3
                          ELSE @,
                        !.error_details = Append(@,
                          [ error_date |-> t,
                            user_answer |-> userAnswer,
                            correct_answer |-> correctAnswer,
                            error_type |-> errorType ])]
      d2 == IF d1.is_resolved
            THEN [d1 EXCEPT !.is_resolved = FALSE, !.resolved_date = NullDate]
            ELSE d1
  IN [d2 EXCEPT !.isNew = FALSE]

\* checkResolutionStatus that also reopens when the window falls below 80%
checkResolutionStatusBothWays(doc, t) ==
  LET recentReviews == SliceLast(doc.review_history, 5)
      successfulReviews == CountSuccessful(recentReviews)
  IN IF Len(recentReviews) >= 3
       THEN IF successfulReviews * 10 >= 8 * Len(recentReviews)
              THEN [doc EXCEPT !.is_resolved = TRUE, !.resolved_date = t]
              ELSE [doc EXCEPT !.is_resolved = FALSE, !.resolved_date = NullDate]
       ELSE doc

\* checkResolutionStatus that evaluates from two reviews on
checkResolutionStatusTwoReviews(doc, t) ==
  LET recentReviews == SliceLast(doc.review_history, 5)
      successfulReviews == CountSuccessful(recentReviews)
  IN IF Len(recentReviews) >= 2 /\ successfulReviews * 10 >= 8 * Len(recentReviews)
       THEN [doc EXCEPT !.is_resolved = TRUE, !.resolved_date = t]
       ELSE doc

checkResolutionStatus(doc, t) ==
  LET recentReviews == SliceLast(doc.review_history, 5)
      successfulReviews == CountSuccessful(recentReviews)
  IN IF Len(recentReviews) >= 3 /\ successfulReviews * 10 >= 8 * Len(recentReviews)
       THEN [doc EXCEPT !.is_resolved = TRUE, !.resolved_date = t]
       ELSE doc

addReview(doc, wasSuccessful, reviewMethod, responseTime, confidenceLevel, t) ==
  LET d1 == [doc EXCEPT !.review_history = Append(@,
               [ review_date |-> t,
                 was_successful |-> wasSuccessful,
                 review_method |-> reviewMethod,
                 response_time |-> responseTime,
                 confidence_level |-> confidenceLevel ])]
  IN [checkResolutionStatus(d1, t) EXCEPT !.isNew = FALSE]

markAsResolved(doc, t) ==
  [doc EXCEPT !.is_resolved = TRUE, !.resolved_date = t, !.isNew = FALSE]

\* markAsUnresolved that leaves resolved_date in place
markAsUnresolvedKeepsDate(doc) ==
  [doc EXCEPT !.is_resolved = FALSE, !.isNew = FALSE]

markAsUnresolved(doc) ==
  [doc EXCEPT !.is_resolved = FALSE, !.resolved_date = NullDate, !.isNew = FALSE]

-----------------------------------------------------------------------------
\* UserDictionary

\* the document startDictionary upserts at time t: $setOnInsert, $set and the
\* schema defaults
NewUserDictionary(t) ==
  [ total_words |-> TotalWords,
    completed_words |-> 0,
    correct_answers |-> 0,
    wrong_answers |-> 0,
    current_position |-> 0,
    status |-> "in_progress",
    last_accessed |-> t,
    started_at |-> t,
    completed_at |-> NullDate,
    session_stats |->
      [ total_study_time |-> 0,
        average_time_per_word |-> <<0, 1>>,
        current_streak |-> 0,
        best_streak |-> 0,
        last_session_date |-> NullDate ] ]

\* the pre('save') middleware
preSave(doc) ==
  [doc EXCEPT !.completed_words = IF @ > doc.total_words THEN doc.total_words ELSE @,
              !.current_position = IF @ > doc.total_words THEN doc.total_words ELSE @]

updateProgress(doc, isCorrect, timeSpent, t) ==
  LET ss == doc.session_stats
      d1 == IF isCorrect
            THEN [doc EXCEPT !.correct_answers = @ + 1,
                             !.session_stats =
                               [ss EXCEPT !.current_streak = @ + 1,
                                          !.best_streak =
                                            Max(@, ss.current_streak + 1)]]
            ELSE [doc EXCEPT !.wrong_answers = @ + 1,
                             !.session_stats = [ss EXCEPT !.current_streak = 0]]
      totalAttempts == d1.correct_answers + d1.wrong_answers
      study == ss.total_study_time + timeSpent
      d2 == [d1 EXCEPT !.session_stats =
               [@ EXCEPT !.total_study_time = study,
                         !.last_session_date = t,
                         !.average_time_per_word =
                           IF totalAttempts > 0 THEN Ratio(study, totalAttempts)
                                                ELSE @],
                        !.last_accessed = t]
      d3 == IF d2.status = "not_started"
            THEN [d2 EXCEPT !.status = "in_progress", !.started_at = t]
            ELSE d2
  IN preSave(d3)

advancePosition(doc, t) ==
  LET position == doc.current_position + 1
      d1 == [doc EXCEPT !.current_position = position,
                        !.completed_words = Max(@, position)]
      d2 == IF d1.completed_words >= d1.total_words
            THEN [d1 EXCEPT !.status = "completed", !.completed_at = t]
            ELSE d1
  IN preSave([d2 EXCEPT !.last_accessed = t])

\* the schema method startDictionary
startDictionary(doc, t) ==
  LET d1 == IF doc.status = "not_started"
            THEN [doc EXCEPT !.status = "in_progress", !.started_at = t]
            ELSE doc
  IN preSave([d1 EXCEPT !.last_accessed = t])

\* resetProgress of UserDictionary
resetDictionaryProgress(doc, t) ==
  preSave([doc EXCEPT !.completed_words = 0,
                      !.correct_answers = 0,
                      !.wrong_answers = 0,
                      !.current_position = 0,
                      !.status = "not_started",
                      !.started_at = NullDate,
                      !.completed_at = NullDate,
                      !.session_stats = [@ EXCEPT !.current_streak = 0],
                      !.last_accessed = t])

\* pauseDictionary: saves only when the dictionary is in progress
pauseDictionary(doc, t) ==
  IF doc.status = "in_progress"
  THEN preSave([doc EXCEPT !.status = "paused", !.last_accessed = t])
  ELSE doc

\* resumeDictionary: saves only when the dictionary is paused
resumeDictionary(doc, t) ==
  IF doc.status = "paused"
  THEN preSave([doc EXCEPT !.status = "in_progress", !.last_accessed = t])
  ELSE doc

-----------------------------------------------------------------------------
\* The collections.  A document of UserWordProgress or WrongWords is stored
\* under its unique index, the triple of user, dictionary and word, which
\* also serves as its _id; a UserDictionary under its user and dictionary.

\* no document under the key
NoDoc == [exists |-> FALSE]

Keys == Users \X Dictionaries \X Words

owner(key) == key[1]

\* the dictionary_id of the document stored under a key
dictionaryOf(key) == key[2]

NoId == <<>>

\* new UserWordProgress({...}) of submitWordAnswer: the schema defaults with
\* the two counters and the rating already filled in from the request
NewWordProgress(isCorrect, userDifficulty) ==
  [ZeroProgress EXCEPT !.correct_attempts = IF isCorrect THEN 1 ELSE 0,
                       !.wrong_attempts = IF isCorrect THEN 0 ELSE 1,
                       !.difficulty_rating =
                         IF userDifficulty # NoDifficulty THEN userDifficulty ELSE 3]

\* DictionaryService.getWordByIndex throws when the index is past the file
wordIndexInRange(wordIndex) == wordIndex >= 0 /\ wordIndex < TotalWords

\* one HTTP exchange: the handler, the authenticated user, the :id route
\* parameter (NoId on routes without one), the status, and for a listing the
\* limit asked for and the records listed
RespondTo(handler, user, id, status) ==
  [handler |-> handler, user |-> user, id |-> id, status |-> status,
   limit |-> 0, dictionaryId |-> NoDictionary, sortBy |-> "",
   wrong_words |-> <<>>]

Respond(handler, user, status) == RespondTo(handler, user, NoId, status)

\* the learning_notes after { ...this.learning_notes, ...notes }
updateLearningNotes(doc, notes) ==
  [doc EXCEPT !.learning_notes =
     [f \in DOMAIN @ |-> IF f \in DOMAIN notes THEN notes[f] ELSE @[f]],
              !.isNew = FALSE]

\* Document.prototype.save() of a loaded document: only the paths whose value
\* was changed since the load are written ($set), the others keep what the
\* collection holds now
modifiedPaths(stored, loaded, local) ==
  [f \in DOMAIN local |-> IF local[f] # loaded[f] THEN local[f] ELSE stored[f]]

\* an array that was only pushed to is written as a $push of the new elements
pushed(stored, loaded, local) ==
  stored \o SubSeq(local, Len(loaded) + 1, Len(local))

saveUserDictionary(stored, loaded, local) ==
  [f \in DOMAIN local |->
     IF f = "session_stats" THEN modifiedPaths(stored[f], loaded[f], local[f])
     ELSE IF local[f] # loaded[f] THEN local[f] ELSE stored[f]]

saveWordProgress(stored, loaded, local) ==
  [f \in DOMAIN local |->
     IF f = "learning_history" THEN pushed(stored[f], loaded[f], local[f])
     ELSE IF f \in {"spaced_repetition", "performance_metrics"}
       THEN modifiedPaths(stored[f], loaded[f], local[f])
     ELSE IF local[f] # loaded[f] THEN local[f] ELSE stored[f]]

saveWrongWord(stored, loaded, local) ==
  [f \in DOMAIN local |->
     IF f = "error_details" THEN pushed(stored[f], loaded[f], local[f])
     ELSE IF local[f] # loaded[f] THEN local[f] ELSE stored[f]]

\* a slot with no request in progress
IdleRequest ==
  [ pc |-> "idle", user |-> "", dictionaryId |-> "", word |-> "",
    isCorrect |-> FALSE, userDifficulty |-> NoDifficulty,
    userDictionary |-> NoDoc, wordProgress |-> NoDoc, wrongWord |-> NoDoc ]

-----------------------------------------------------------------------------
\* State machines.  Spec drives one UserWordProgress document with unrated
\* attempts, SpecRated drives it with user difficulty ratings, and SpecWrong
\* drives one WrongWords document.

Init ==
  /\ progress = ZeroProgress
  /\ wrongWord = NewWrongWord(0)
  /\ now = 0
  /\ userDictionaries = [k \in Users \X Dictionaries |-> NoDoc]
  /\ wordProgresses = [k \in Keys |-> NoDoc]
  /\ wrongWords = [k \in Keys |-> NoDoc]
  /\ response = Respond("", "", 0)
  /\ served = 0
  /\ inflight = [r \in Slots |-> IdleRequest]

Tick ==
  /\ now + TickStep <= MaxNow
  /\ now' = now + TickStep
  /\ UNCHANGED <<progress, wrongWord>>
  /\ UNCHANGED storeVars

RecordAttempt ==
  /\ Len(progress.learning_history) < MaxAttempts
  /\ \E isCorrect \in BOOLEAN :
       progress' = recordAttempt(progress, isCorrect, 0, NoDifficulty, now)
  /\ UNCHANGED <<wrongWord, now>>
  /\ UNCHANGED storeVars

RecordRatedAttempt ==
  /\ Len(progress.learning_history) < MaxRatedAttempts
  /\ \E isCorrect \in BOOLEAN, responseTime \in ResponseTimes,
        userDifficulty \in Difficulties :
       progress' = recordAttempt(progress, isCorrect, responseTime, userDifficulty, now)
  /\ UNCHANGED <<wrongWord, now>>
  /\ UNCHANGED storeVars

ResetProgress ==
  /\ progress' = resetProgress(progress, now)
  /\ UNCHANGED <<wrongWord, now>>
  /\ UNCHANGED storeVars

MarkAsMastered ==
  /\ progress' = markAsMastered(progress, now)
  /\ UNCHANGED <<wrongWord, now>>
  /\ UNCHANGED storeVars

\* submitWordAnswer on a wrong answer: addError on the stored document, or
\* on the document just constructed
AddError ==
  /\ wrongWord.error_count < MaxErrors
  /\ \E userAnswer \in UserAnswers :
       wrongWord' = addError(wrongWord, userAnswer, "trans", "meaning", now)
  /\ UNCHANGED <<progress, now>>
  /\ UNCHANGED storeVars

\* reviewWrongWord: the document is loaded from the store
AddReview ==
  /\ ~wrongWord.isNew
  /\ Len(wrongWord.review_history) < MaxReviews
  /\ \E wasSuccessful \in BOOLEAN :
       wrongWord' = addReview(wrongWord, wasSuccessful, "study", 0, 3, now)
  /\ UNCHANGED <<progress, now>>
  /\ UNCHANGED storeVars

MarkAsResolved ==
  /\ ~wrongWord.isNew
  /\ wrongWord' = markAsResolved(wrongWord, now)
  /\ UNCHANGED <<progress, now>>
  /\ UNCHANGED storeVars

MarkAsUnresolved ==
  /\ ~wrongWord.isNew
  /\ wrongWord' = markAsUnresolved(wrongWord)
  /\ UNCHANGED <<progress, now>>
  /\ UNCHANGED storeVars

Next == RecordAttempt \/ ResetProgress \/ MarkAsMastered \/ Tick

Spec == Init /\ [][Next]_vars

\* attempts and resets only, no explicit mastery override
NextAttempts == RecordAttempt \/ ResetProgress \/ Tick

SpecAttempts == Init /\ [][NextAttempts]_vars

NextRated == RecordRatedAttempt \/ ResetProgress

SpecRated == Init /\ [][NextRated]_vars

NextWrong == AddError \/ AddReview \/ MarkAsResolved \/ MarkAsUnresolved \/ Tick

SpecWrong == Init /\ [][NextWrong]_vars

-----------------------------------------------------------------------------
\* The two documents side by side, each driven through its schema methods
\* with every rating

EngineOps ==
  Len(progress.learning_history) + Len(wrongWord.error_details)
    + Len(wrongWord.review_history)

EngineRecordAttempt ==
  /\ EngineOps < MaxEngineOps
  /\ \E isCorrect \in BOOLEAN, responseTime \in ResponseTimes,
        userDifficulty \in Difficulties :
       progress' = recordAttempt(progress, isCorrect, responseTime, userDifficulty, now)
  /\ UNCHANGED <<wrongWord, now>>
  /\ UNCHANGED storeVars

EngineAddError ==
  /\ EngineOps < MaxEngineOps
  /\ \E userAnswer \in UserAnswers :
       wrongWord' = addError(wrongWord, userAnswer, "trans", "meaning", now)
  /\ UNCHANGED <<progress, now>>
  /\ UNCHANGED storeVars

EngineAddReview ==
  /\ EngineOps < MaxEngineOps
  /\ ~wrongWord.isNew
  /\ \E wasSuccessful \in BOOLEAN :
       wrongWord' = addReview(wrongWord, wasSuccessful, "study", 0, 3, now)
  /\ UNCHANGED <<progress, now>>
  /\ UNCHANGED storeVars

NextEngine ==
  \/ EngineRecordAttempt \/ ResetProgress \/ MarkAsMastered
  \/ EngineAddError \/ EngineAddReview

SpecEngine == Init /\ [][NextEngine]_vars

-----------------------------------------------------------------------------
\* The controller over the collections: one action per request handler

\* time passing between requests, in steps shorter than a day
Elapse ==
  /\ now < MaxElapsed
  /\ now' = now + 1
  /\ UNCHANGED docVars
  /\ UNCHANGED storeVars

\* startDictionary served on its own: the upsert finds the document or
\* inserts it, and the catch block for error 11000 is not entered (it is in
\* StartUpsert to StartResumeExisting, where two requests meet)
StartDictionary ==
  /\ served < MaxRequests
  /\ \E user \in Users, dictionaryId \in Dictionaries :
       LET found == userDictionaries[<<user, dictionaryId>>]
           upserted == IF found = NoDoc THEN NewUserDictionary(now)
                       ELSE [found EXCEPT !.last_accessed = now]
           saved == IF upserted.status \notin {"in_progress", "completed"}
                    THEN preSave([upserted EXCEPT !.status = "in_progress"])
                    ELSE upserted
       IN /\ userDictionaries' =
               [userDictionaries EXCEPT ![<<user, dictionaryId>>] = saved]
          /\ response' = Respond("startDictionary", user, 200)
  /\ served' = served + 1
  /\ UNCHANGED <<wordProgresses, wrongWords, now, inflight>>
  /\ UNCHANGED docVars

\* submitWordAnswer with the optional wordIndex left out, so that the word is
\* looked up at the dictionary's current position
SubmitWordAnswer ==
  /\ served < MaxRequests
  /\ \E user \in Users, dictionaryId \in Dictionaries, word \in Words,
        isCorrect \in BOOLEAN, userDifficulty \in SubmitDifficulties :
       LET key == <<user, dictionaryId, word>>
           userDictionary == userDictionaries[<<user, dictionaryId>>]
           updated == updateProgress(userDictionary, isCorrect, 0, now)
           found == wordProgresses[key]
           wordProgress ==
             IF found # NoDoc
             THEN recordAttempt(found, isCorrect, 0, userDifficulty, now)
             ELSE recordAttempt(NewWordProgress(isCorrect, userDifficulty),
                                isCorrect, 0, userDifficulty, now)
           wrongWordFound == wrongWords[key]
           wrongWordSaved ==
             IF wrongWordFound # NoDoc
             THEN addError(wrongWordFound, "guess", "trans", "meaning", now)
             ELSE addError(NewWrongWord(now), "guess", "trans", "meaning", now)
       IN IF userDictionary = NoDoc
          THEN /\ response' = Respond("submitWordAnswer", user, 404)
               /\ UNCHANGED <<userDictionaries, wordProgresses, wrongWords>>
          ELSE /\ wordProgresses' = [wordProgresses EXCEPT ![key] = wordProgress]
               /\ IF ~isCorrect /\ ~wordIndexInRange(updated.current_position)
                  THEN \* getWordByIndex throws: caught, answered with 500
                       /\ userDictionaries' =
                            [userDictionaries EXCEPT ![<<user, dictionaryId>>] = updated]
                       /\ UNCHANGED wrongWords
                       /\ response' = Respond("submitWordAnswer", user, 500)
                  ELSE /\ wrongWords' =
                            IF isCorrect THEN wrongWords
                            ELSE [wrongWords EXCEPT ![key] = wrongWordSaved]
                       /\ userDictionaries' =
                            [userDictionaries EXCEPT ![<<user, dictionaryId>>] =
                               advancePosition(updated, now)]
                       /\ response' = Respond("submitWordAnswer", user, 200)
  /\ served' = served + 1
  /\ UNCHANGED <<now, inflight>>
  /\ UNCHANGED docVars

\* first use of a dictionary and answers to its words
NextSubmit == StartDictionary \/ SubmitWordAnswer \/ Elapse

SpecSubmit == Init /\ [][NextSubmit]_vars

\* WrongWords.findOne({ _id: id, user_id: user }) without the user filter
findOneWrongWordById(user, id) == wrongWords[id]

\* WrongWords.findOne({ _id: id, user_id: user })
findOneWrongWord(user, id) ==
  IF wrongWords[id] # NoDoc /\ owner(id) = user THEN wrongWords[id] ELSE NoDoc

\* the body of reviewWrongWord for one request
reviewRequest(user, id, wasSuccessful) ==
  LET found == findOneWrongWord(user, id)
      key == <<user, id[2], id[3]>>
      wordProgress == wordProgresses[key]
  IN IF found = NoDoc
     THEN /\ response' = RespondTo("reviewWrongWord", user, id, 404)
          /\ UNCHANGED <<wrongWords, wordProgresses>>
     ELSE /\ wrongWords' = [wrongWords EXCEPT ![id] =
               addReview(found, wasSuccessful, "study", 0, 3, now)]
          /\ wordProgresses' =
               IF wasSuccessful /\ wordProgress # NoDoc
               THEN [wordProgresses EXCEPT ![key] =
                       recordAttempt(wordProgress, TRUE, 0, NoDifficulty, now)]
               ELSE wordProgresses
          /\ response' = RespondTo("reviewWrongWord", user, id, 200)

ReviewWrongWord ==
  /\ served < MaxRequests
  /\ \E user \in Users, id \in Keys, wasSuccessful \in BOOLEAN :
       reviewRequest(user, id, wasSuccessful)
  /\ served' = served + 1
  /\ UNCHANGED <<userDictionaries, now, inflight>>
  /\ UNCHANGED docVars

MarkAsResolvedRequest ==
  /\ served < MaxRequests
  /\ \E user \in Users, id \in Keys :
       LET found == findOneWrongWord(user, id)
       IN IF found = NoDoc
          THEN /\ response' = RespondTo("markAsResolved", user, id, 404)
               /\ UNCHANGED wrongWords
          ELSE /\ wrongWords' = [wrongWords EXCEPT ![id] = markAsResolved(found, now)]
               /\ response' = RespondTo("markAsResolved", user, id, 200)
  /\ served' = served + 1
  /\ UNCHANGED <<userDictionaries, wordProgresses, now, inflight>>
  /\ UNCHANGED docVars

MarkAsUnresolvedRequest ==
  /\ served < MaxRequests
  /\ \E user \in Users, id \in Keys :
       LET found == findOneWrongWord(user, id)
       IN IF found = NoDoc
          THEN /\ response' = RespondTo("markAsUnresolved", user, id, 404)
               /\ UNCHANGED wrongWords
          ELSE /\ wrongWords' = [wrongWords EXCEPT ![id] = markAsUnresolved(found)]
               /\ response' = RespondTo("markAsUnresolved", user, id, 200)
  /\ served' = served + 1
  /\ UNCHANGED <<userDictionaries, wordProgresses, now, inflight>>
  /\ UNCHANGED docVars

UpdateLearningNotes ==
  /\ served < MaxRequests
  /\ \E user \in Users, id \in Keys, updates \in NoteUpdates :
       LET found == findOneWrongWord(user, id)
       IN IF found = NoDoc
          THEN /\ response' = RespondTo("updateLearningNotes", user, id, 404)
               /\ UNCHANGED wrongWords
          ELSE /\ wrongWords' =
                    [wrongWords EXCEPT ![id] = updateLearningNotes(found, updates)]
               /\ response' = RespondTo("updateLearningNotes", user, id, 200)
  /\ served' = served + 1
  /\ UNCHANGED <<userDictionaries, wordProgresses, now, inflight>>
  /\ UNCHANGED docVars

DeleteWrongWord ==
  /\ served < MaxRequests
  /\ \E user \in Users, id \in Keys :
       LET found == findOneWrongWord(user, id)
       IN IF found = NoDoc
          THEN /\ response' = RespondTo("deleteWrongWord", user, id, 404)
               /\ UNCHANGED wrongWords
          ELSE /\ wrongWords' = [wrongWords EXCEPT ![id] = NoDoc]
               /\ response' = RespondTo("deleteWrongWord", user, id, 200)
  /\ served' = served + 1
  /\ UNCHANGED <<userDictionaries, wordProgresses, now, inflight>>
  /\ UNCHANGED docVars

\* the routes that address one WrongWords document by its id
NextOwner ==
  \/ StartDictionary \/ SubmitWordAnswer
  \/ ReviewWrongWord \/ MarkAsResolvedRequest \/ MarkAsUnresolvedRequest
  \/ UpdateLearningNotes \/ DeleteWrongWord

SpecOwner == Init /\ [][NextOwner]_vars

\* reviews stored over all WrongWords documents
RECURSIVE reviewsOf(_)
reviewsOf(ids) ==
  IF ids = {} THEN 0
  ELSE LET id == CHOOSE x \in ids : TRUE
       IN (IF wrongWords[id] = NoDoc THEN 0 ELSE Len(wrongWords[id].review_history))
          + reviewsOf(ids \ {id})

\* a review session: reviewWrongWord requests of the owner of a stored
\* document, up to MaxReviews of them, besides the MaxRequests other requests
ReviewSession ==
  /\ reviewsOf(Keys) < MaxReviews
  /\ \E id \in Keys, wasSuccessful \in BOOLEAN :
       /\ wrongWords[id] # NoDoc
       /\ reviewRequest(owner(id), id, wasSuccessful)
  /\ UNCHANGED <<userDictionaries, served, now, inflight>>
  /\ UNCHANGED docVars

\* answers and the reviews of the words answered wrong
NextReview == StartDictionary \/ SubmitWordAnswer \/ ReviewSession

SpecReview == Init /\ [][NextReview]_vars

\* the $sort stage of findByUrgency: every order of the matched ids in which
\* urgency_score never increases; equal scores may come in either order
sortByUrgency(matched, t) ==
  LET score(id) == findByUrgency(wrongWords[id], t).urgency_score
      n == Cardinality(matched)
  IN { order \in [1..n -> matched] :
         /\ \A i, j \in 1..n : i # j => order[i] # order[j]
         /\ \A i, j \in 1..n : i < j => RatioOrder(score(order[i]), score(order[j])) }

\* the $limit stage
limitTo(order, limit) ==
  IF Len(order) <= limit THEN order ELSE SubSeq(order, 1, limit)

\* the sort stage of WrongWords.find(query).sort({ last_wrong_date: -1 }):
\* every order of the matched ids in which last_wrong_date never increases
sortByRecent(matched) ==
  LET n == Cardinality(matched)
  IN { order \in [1..n -> matched] :
         /\ \A i, j \in 1..n : i # j => order[i] # order[j]
         /\ \A i, j \in 1..n :
              i < j => wrongWords[order[i]].last_wrong_date
                         >= wrongWords[order[j]].last_wrong_date }

\* the filter getWrongWords builds from the request: user_id, dictionary_id
\* when dictionaryId is given, is_resolved false unless includeResolved
query(user, dictionaryId, includeResolved) ==
  { id \in Keys : /\ wrongWords[id] # NoDoc
                  /\ owner(id) = user
                  /\ dictionaryId # NoDictionary => dictionaryOf(id) = dictionaryId
                  /\ ~includeResolved => wrongWords[id].is_resolved = FALSE }

\* getWrongWords.  sortBy 'urgency', the default, goes through findByUrgency
\* with the user and the limit only; the other sort options run the query.
\* A read: it is not counted in served.  It leaves the collections as they
\* are, so of several reads in a row only one is taken: the others answer
\* what they would answer in its place.
GetWrongWords ==
  /\ response.handler # "getWrongWords"
  /\ \E user \in Users, dictionaryId \in DictionaryFilters,
        includeResolved \in BOOLEAN, limit \in Limits, sortBy \in SortOptions :
       IF dictionaryId = InvalidDictionaryId
       THEN response' =
              [ RespondTo("getWrongWords", user, NoId, 400) EXCEPT
                  !.dictionaryId = dictionaryId, !.sortBy = sortBy ]
       ELSE
         LET matched == { id \in Keys : /\ owner(id) = user
                                       /\ wrongWords[id] # NoDoc
                                       /\ findByUrgencyMatch(wrongWords[id]) }
             orders == IF sortBy = "urgency"
                       THEN sortByUrgency(matched, now)
                       ELSE sortByRecent(query(user, dictionaryId, includeResolved))
         IN \E order \in orders :
              LET listed == limitTo(order, limit)
              IN response' =
                   [ RespondTo("getWrongWords", user, NoId, 200) EXCEPT
                       !.limit = limit,
                       !.dictionaryId = dictionaryId,
                       !.sortBy = sortBy,
                       !.wrong_words =
                         [ i \in 1..Len(listed) |->
                             [ id |-> listed[i],
                               is_resolved |-> wrongWords[listed[i]].is_resolved,
                               last_wrong_date |-> wrongWords[listed[i]].last_wrong_date,
                               urgency_score |->
                                 findByUrgency(wrongWords[listed[i]], now).urgency_score ] ] ]
  /\ UNCHANGED <<userDictionaries, wordProgresses, wrongWords, served, now, inflight>>
  /\ UNCHANGED docVars

\* answers, manual resolution and the review queue
NextQueue ==
  \/ StartDictionary \/ SubmitWordAnswer \/ MarkAsResolvedRequest
  \/ GetWrongWords \/ Elapse

SpecQueue == Init /\ [][NextQueue]_vars

-----------------------------------------------------------------------------
\* submitWordAnswer one await at a time, for requests served concurrently.
\* Each step is the code between two awaits of the handler; the documents a
\* request has loaded are its own copies.

\* await UserDictionary.findOne(...)
SubmitReceive ==
  /\ served < MaxRequests
  /\ \E r \in Slots, user \in Users, dictionaryId \in Dictionaries, word \in Words,
        isCorrect \in BOOLEAN, userDifficulty \in SubmitDifficulties :
       LET userDictionary == userDictionaries[<<user, dictionaryId>>]
       IN /\ inflight[r].pc = "idle"
          /\ IF userDictionary = NoDoc
             THEN /\ response' = Respond("submitWordAnswer", user, 404)
                  /\ UNCHANGED inflight
             ELSE /\ inflight' = [inflight EXCEPT ![r] =
                       [IdleRequest EXCEPT !.pc = "updateProgress",
                                           !.user = user,
                                           !.dictionaryId = dictionaryId,
                                           !.word = word,
                                           !.isCorrect = isCorrect,
                                           !.userDifficulty = userDifficulty,
                                           !.userDictionary = userDictionary]]
                  /\ UNCHANGED response
  /\ served' = served + 1
  /\ UNCHANGED <<userDictionaries, wordProgresses, wrongWords, now>>
  /\ UNCHANGED docVars

\* await userDictionary.updateProgress(isCorrect, responseTime)
SubmitUpdateProgress ==
  /\ \E r \in Slots :
       LET req == inflight[r]
           at == <<req.user, req.dictionaryId>>
           local == updateProgress(req.userDictionary, req.isCorrect, 0, now)
       IN /\ req.pc = "updateProgress"
          /\ userDictionaries' = [userDictionaries EXCEPT ![at] =
               saveUserDictionary(@, req.userDictionary, local)]
          /\ inflight' = [inflight EXCEPT ![r] =
               [req EXCEPT !.pc = "findProgress", !.userDictionary = local]]
  /\ UNCHANGED <<wordProgresses, wrongWords, response, served, now>>
  /\ UNCHANGED docVars

\* await UserWordProgress.findOne(...)
SubmitFindProgress ==
  /\ \E r \in Slots :
       LET req == inflight[r]
       IN /\ req.pc = "findProgress"
          /\ inflight' = [inflight EXCEPT ![r] =
               [req EXCEPT !.pc = "recordAttempt",
                           !.wordProgress =
                             wordProgresses[<<req.user, req.dictionaryId, req.word>>]]]
  /\ UNCHANGED <<userDictionaries, wordProgresses, wrongWords, response, served, now>>
  /\ UNCHANGED docVars

\* await wordProgress.recordAttempt(...), on the loaded document or on a new
\* one; inserting a second document under the unique index fails
SubmitRecordAttempt ==
  /\ \E r \in Slots :
       LET req == inflight[r]
           key == <<req.user, req.dictionaryId, req.word>>
           loaded == req.wordProgress
           local == IF loaded # NoDoc
                    THEN recordAttempt(loaded, req.isCorrect, 0, req.userDifficulty, now)
                    ELSE recordAttempt(NewWordProgress(req.isCorrect, req.userDifficulty),
                                       req.isCorrect, 0, req.userDifficulty, now)
       IN /\ req.pc = "recordAttempt"
          /\ IF loaded = NoDoc /\ wordProgresses[key] # NoDoc
             THEN /\ inflight' = [inflight EXCEPT ![r] = IdleRequest]
                  /\ response' = Respond("submitWordAnswer", req.user, 500)
                  /\ UNCHANGED wordProgresses
             ELSE /\ wordProgresses' = [wordProgresses EXCEPT ![key] =
                       IF loaded = NoDoc THEN local
                       ELSE saveWordProgress(@, loaded, local)]
                  /\ inflight' = [inflight EXCEPT ![r] =
                       [req EXCEPT !.pc = IF req.isCorrect THEN "advancePosition"
                                          ELSE "findWrongWord",
                                   !.wordProgress = local]]
                  /\ UNCHANGED response
  /\ UNCHANGED <<userDictionaries, wrongWords, served, now>>
  /\ UNCHANGED docVars

\* await DictionaryService.getWordByIndex(...), await WrongWords.findOne(...)
SubmitFindWrongWord ==
  /\ \E r \in Slots :
       LET req == inflight[r]
       IN /\ req.pc = "findWrongWord"
          /\ IF ~wordIndexInRange(req.userDictionary.current_position)
             THEN /\ inflight' = [inflight EXCEPT ![r] = IdleRequest]
                  /\ response' = Respond("submitWordAnswer", req.user, 500)
             ELSE /\ inflight' = [inflight EXCEPT ![r] =
                       [req EXCEPT !.pc = "addError",
                                   !.wrongWord =
                                     wrongWords[<<req.user, req.dictionaryId, req.word>>]]]
                  /\ UNCHANGED response
  /\ UNCHANGED <<userDictionaries, wordProgresses, wrongWords, served, now>>
  /\ UNCHANGED docVars

\* await wrongWord.addError(...), on the loaded document or on a new one
SubmitAddError ==
  /\ \E r \in Slots :
       LET req == inflight[r]
           key == <<req.user, req.dictionaryId, req.word>>
           loaded == req.wrongWord
           local == IF loaded # NoDoc
                    THEN addError(loaded, "guess", "trans", "meaning", now)
                    ELSE addError(NewWrongWord(now), "guess", "trans", "meaning", now)
       IN /\ req.pc = "addError"
          /\ IF loaded = NoDoc /\ wrongWords[key] # NoDoc
             THEN /\ inflight' = [inflight EXCEPT ![r] = IdleRequest]
                  /\ response' = Respond("submitWordAnswer", req.user, 500)
                  /\ UNCHANGED wrongWords
             ELSE /\ wrongWords' = [wrongWords EXCEPT ![key] =
                       IF loaded = NoDoc THEN local
                       ELSE saveWrongWord(@, loaded, local)]
                  /\ inflight' = [inflight EXCEPT ![r] =
                       [req EXCEPT !.pc = "advancePosition", !.wrongWord = local]]
                  /\ UNCHANGED response
  /\ UNCHANGED <<userDictionaries, wordProgresses, served, now>>
  /\ UNCHANGED docVars

\* await userDictionary.advancePosition(), then res.json(...)
SubmitAdvancePosition ==
  /\ \E r \in Slots :
       LET req == inflight[r]
           at == <<req.user, req.dictionaryId>>
           local == advancePosition(req.userDictionary, now)
       IN /\ req.pc = "advancePosition"
          /\ userDictionaries' = [userDictionaries EXCEPT ![at] =
               saveUserDictionary(@, req.userDictionary, local)]
          /\ inflight' = [inflight EXCEPT ![r] = IdleRequest]
          /\ response' = Respond("submitWordAnswer", req.user, 200)
  /\ UNCHANGED <<wordProgresses, wrongWords, served, now>>
  /\ UNCHANGED docVars

NextRace ==
  \/ StartDictionary
  \/ SubmitReceive \/ SubmitUpdateProgress \/ SubmitFindProgress
  \/ SubmitRecordAttempt \/ SubmitFindWrongWord \/ SubmitAddError
  \/ SubmitAdvancePosition

SpecRace == Init /\ [][NextRace]_vars

\* the manual updateProgress route: currentPosition absent, or checked against
\* 0..total_words and written to current_position and completed_words.  The
\* settings of the request are not part of the modelled document.
UpdateProgress ==
  /\ served < MaxRequests
  /\ \E user \in Users, dictionaryId \in Dictionaries, currentPosition \in Positions :
       LET at == <<user, dictionaryId>>
           userDictionary == userDictionaries[at]
           moved == IF currentPosition = NoPosition THEN userDictionary
                    ELSE [userDictionary EXCEPT
                            !.current_position = currentPosition,
                            !.completed_words = Max(@, currentPosition)]
       IN IF userDictionary = NoDoc
          THEN /\ response' = Respond("updateProgress", user, 404)
               /\ UNCHANGED userDictionaries
          ELSE IF /\ currentPosition # NoPosition
                  /\ (currentPosition < 0 \/ currentPosition > userDictionary.total_words)
          THEN /\ response' = Respond("updateProgress", user, 400)
               /\ UNCHANGED userDictionaries
          ELSE /\ userDictionaries' = [userDictionaries EXCEPT ![at] =
                    preSave([moved EXCEPT !.last_accessed = now])]
               /\ response' = Respond("updateProgress", user, 200)
  /\ served' = served + 1
  /\ UNCHANGED <<wordProgresses, wrongWords, now, inflight>>
  /\ UNCHANGED docVars

\* the schema method startDictionary called on a stored document
StartDictionaryMethod ==
  /\ \E at \in Users \X Dictionaries :
       /\ userDictionaries[at] # NoDoc
       /\ userDictionaries' =
            [userDictionaries EXCEPT ![at] = startDictionary(userDictionaries[at], now)]
  /\ UNCHANGED <<wordProgresses, wrongWords, response, served, now, inflight>>
  /\ UNCHANGED docVars

\* pauseDictionary called on a stored document
PauseDictionary ==
  /\ \E at \in Users \X Dictionaries :
       /\ userDictionaries[at] # NoDoc
       /\ userDictionaries' =
            [userDictionaries EXCEPT ![at] = pauseDictionary(userDictionaries[at], now)]
  /\ UNCHANGED <<wordProgresses, wrongWords, response, served, now, inflight>>
  /\ UNCHANGED docVars

\* resumeDictionary called on a stored document
ResumeDictionary ==
  /\ \E at \in Users \X Dictionaries :
       /\ userDictionaries[at] # NoDoc
       /\ userDictionaries' =
            [userDictionaries EXCEPT ![at] = resumeDictionary(userDictionaries[at], now)]
  /\ UNCHANGED <<wordProgresses, wrongWords, response, served, now, inflight>>
  /\ UNCHANGED docVars

\* resetProgress called on a stored UserDictionary
ResetDictionaryProgress ==
  /\ \E at \in Users \X Dictionaries :
       /\ userDictionaries[at] # NoDoc
       /\ userDictionaries' =
            [userDictionaries EXCEPT ![at] = resetDictionaryProgress(userDictionaries[at], now)]
  /\ UNCHANGED <<wordProgresses, wrongWords, response, served, now, inflight>>
  /\ UNCHANGED docVars

\* startDictionary served next to other requests.  The upsert of
\* findOneAndUpdate is a find followed, when nothing matched, by an insert;
\* here the find: a matched document gets last_accessed and the request goes
\* on as in StartDictionary
StartUpsert ==
  /\ served < MaxRequests
  /\ \E r \in Slots, user \in Users, dictionaryId \in Dictionaries :
       LET at == <<user, dictionaryId>>
           found == userDictionaries[at]
           updated == [found EXCEPT !.last_accessed = now]
       IN /\ inflight[r].pc = "idle"
          /\ IF found = NoDoc
             THEN /\ inflight' = [inflight EXCEPT ![r] =
                       [IdleRequest EXCEPT !.pc = "insert",
                                           !.user = user,
                                           !.dictionaryId = dictionaryId]]
                  /\ UNCHANGED <<userDictionaries, response>>
             ELSE /\ userDictionaries' = [userDictionaries EXCEPT ![at] =
                       IF updated.status \notin {"in_progress", "completed"}
                       THEN preSave([updated EXCEPT !.status = "in_progress"])
                       ELSE updated]
                  /\ response' = Respond("startDictionary", user, 200)
                  /\ UNCHANGED inflight
  /\ served' = served + 1
  /\ UNCHANGED <<wordProgresses, wrongWords, now>>
  /\ UNCHANGED docVars

\* the insert of the upsert: when another request has inserted the document
\* in between, the unique index refuses the second one with error 11000 and
\* the handler goes to its catch block
StartInsert ==
  /\ \E r \in Slots :
       LET req == inflight[r]
           at == <<req.user, req.dictionaryId>>
       IN /\ req.pc = "insert"
          /\ IF userDictionaries[at] = NoDoc
             THEN /\ userDictionaries' =
                       [userDictionaries EXCEPT ![at] = NewUserDictionary(now)]
                  /\ inflight' = [inflight EXCEPT ![r] = IdleRequest]
                  /\ response' = Respond("startDictionary", req.user, 200)
             ELSE /\ inflight' = [inflight EXCEPT ![r] =
                       [req EXCEPT !.pc = "duplicateKey"]]
                  /\ UNCHANGED <<userDictionaries, response>>
  /\ UNCHANGED <<wordProgresses, wrongWords, served, now>>
  /\ UNCHANGED docVars

\* catch (error.code === 11000): await UserDictionary.findOne(...)
StartFindExisting ==
  /\ \E r \in Slots :
       LET req == inflight[r]
       IN /\ req.pc = "duplicateKey"
          /\ inflight' = [inflight EXCEPT ![r] =
               [req EXCEPT !.pc = "resume",
                           !.userDictionary =
                             userDictionaries[<<req.user, req.dictionaryId>>]]]
  /\ UNCHANGED <<userDictionaries, wordProgresses, wrongWords, response, served, now>>
  /\ UNCHANGED docVars

\* existingUserDictionary.status = 'in_progress', last_accessed, save
StartResumeExisting ==
  /\ \E r \in Slots :
       LET req == inflight[r]
           at == <<req.user, req.dictionaryId>>
           loaded == req.userDictionary
           local == preSave([loaded EXCEPT !.status = "in_progress",
                                           !.last_accessed = now])
       IN /\ req.pc = "resume"
          /\ userDictionaries' = [userDictionaries EXCEPT ![at] =
               saveUserDictionary(@, loaded, local)]
          /\ inflight' = [inflight EXCEPT ![r] = IdleRequest]
          /\ response' = Respond("startDictionary", req.user, 200)
  /\ UNCHANGED <<wordProgresses, wrongWords, served, now>>
  /\ UNCHANGED docVars

\* the life of a UserDictionary: started (also by two requests at once),
\* answered, moved, paused, resumed and reset
NextDictionary ==
  \/ StartUpsert \/ StartInsert \/ StartFindExisting \/ StartResumeExisting
  \/ SubmitWordAnswer \/ UpdateProgress
  \/ StartDictionaryMethod \/ PauseDictionary \/ ResumeDictionary
  \/ ResetDictionaryProgress

SpecDictionary == Init /\ [][NextDictionary]_vars

-----------------------------------------------------------------------------
\* Steps, recognised by what they append or count

\* a step that is one recordAttempt call on the document
RecordAttemptStep ==
  Len(progress'.learning_history) = Len(progress.learning_history) + 1

\* a step that is one addError call on the document
AddErrorStep == wrongWord'.error_count = wrongWord.error_count + 1

\* a step that is one addReview call on the document
AddReviewStep ==
  Len(wrongWord'.review_history) = Len(wrongWord.review_history) + 1

-----------------------------------------------------------------------------
\* Properties

\* C1: from the zero-value document, after every recordAttempt, resetProgress
\* and markAsMastered call, correct_attempts + wrong_attempts equals the
\* length of learning_history.
C1_CountersMatchHistory ==
  progress.correct_attempts + progress.wrong_attempts
    = Len(progress.learning_history)

\* mixed attempts recorded after time has passed, then the explicit override
C1_Witness ==
  /\ Len(progress.learning_history) >= 3
  /\ progress.correct_attempts >= 1
  /\ progress.wrong_attempts >= 2
  /\ progress.learning_history[1].attempt_date > 0
  /\ progress.is_mastered
  /\ progress.next_review = now + 30 * DayUnits

\* C2: in every reachable state is_mastered implies mastery_level = 5.
\* The code falsifies it: updateMasteryLevel lowers mastery_level on the
\* first incorrect attempt after level 5 and leaves is_mastered set.
C2_MasteredImpliesLevel5 ==
  progress.is_mastered => progress.mastery_level = 5

\* C3: across a recordAttempt call mastery_level does not drop unless
\* consecutive_wrong is 3 or more after the call.  The code falsifies it:
\* the level is recomputed from the accuracy, which an incorrect attempt lowers.
C3_LevelDropsOnlyOnDecay ==
  [][ RecordAttemptStep =>
        \/ progress'.mastery_level >= progress.mastery_level
        \/ progress'.performance_metrics.consecutive_wrong >= 3 ]_vars

\* C4: the recordAttempt(false) call that brings consecutive_wrong to 3 leaves
\* mastery_level strictly lower than before, or 0, and is_mastered false.
C4_ThirdWrongDecays ==
  [][ (RecordAttemptStep /\ progress'.performance_metrics.consecutive_wrong = 3) =>
        /\ \/ progress'.mastery_level < progress.mastery_level
           \/ progress'.mastery_level = 0
        /\ progress'.is_mastered = FALSE ]_vars

\* five correct attempts (level 5 reached) followed by three incorrect ones
C4_Witness ==
  /\ progress.performance_metrics.consecutive_wrong = 3
  /\ progress.correct_attempts = 5
  /\ progress.wrong_attempts = 3
  /\ \A i \in 1..5 : progress.learning_history[i].was_correct
  /\ progress.is_mastered = FALSE
  /\ progress.mastery_level = 1

\* C5: ease_factor is at least 1.3 in every state reachable by recordAttempt
\* calls with userDifficulty absent or in 1..5.
C5_EaseFactorFloor == progress.spaced_repetition.ease_factor >= 130

\* five difficulty-5 ratings in a row: the fifth would go below the floor
C5_Witness ==
  /\ Len(progress.learning_history) = 5
  /\ \A i \in 1..5 : progress.learning_history[i].difficulty_after = 5
  /\ progress.spaced_repetition.ease_factor = 130

\* C6: urgency_score is never negative, as the virtual of a document and as
\* the field the findByUrgency pipeline adds to the documents it returns.
\* The pipeline falsifies it: it subtracts the review rate without a floor.
C6_UrgencyNeverNegative ==
  /\ urgency_score(wrongWord, now) >= 0
  /\ findByUrgencyMatch(wrongWord) =>
       findByUrgency(wrongWord, now).urgency_score[1] >= 0

\* C7: resolved_date is set exactly when is_resolved is true.
C7_ResolvedIffDate ==
  wrongWord.is_resolved <=> (wrongWord.resolved_date # NullDate)

\* a document resolved again, at a later date, after it had been reopened
C7_Witness ==
  /\ wrongWord.is_resolved
  /\ wrongWord.resolved_date > 0
  /\ wrongWord.error_count >= 3
  /\ Len(wrongWord.review_history) >= 3
  /\ wrongWord.last_wrong_date > wrongWord.review_history[1].review_date

\* the fixed thresholds of review_priority
PriorityOf(count) ==
  IF count >= 5 THEN 5 ELSE IF count >= 3 THEN 4 ELSE IF count >= 2 THEN 3 ELSE 1

\* C8: after every addError call review_priority is the threshold function of
\* error_count, and it did not decrease across the call.
C8_PriorityFromErrorCount ==
  [][ AddErrorStep =>
        /\ wrongWord'.review_priority = PriorityOf(wrongWord'.error_count)
        /\ wrongWord'.review_priority >= wrongWord.review_priority ]_vars

\* four addError calls on a new document: counts 2, 3, 4, 5
C8_Witness ==
  /\ wrongWord.error_count = 5
  /\ wrongWord.review_priority = 5
  /\ Len(wrongWord.error_details) = 4

\* the last min(5, n) reviews have at least 3 entries, at least 80% successful
WindowResolves(h) ==
  LET n == IF Len(h) < 5 THEN Len(h) ELSE 5
      window == (Len(h) - n + 1)..Len(h)
      good == Cardinality({i \in window : h[i].was_successful})
  IN n >= 3 /\ 5 * good >= 4 * n

\* C9: an addReview call turns an unresolved document resolved exactly when
\* the window of reviews, the new one included, resolves.
C9_ResolvesIffWindow ==
  [][ (AddReviewStep /\ ~wrongWord.is_resolved) =>
        (wrongWord'.is_resolved <=> WindowResolves(wrongWord'.review_history)) ]_vars

\* a sixth review whose window of five (the first one has left it) resolves
C9_WindowSlides ==
  /\ wrongWord.is_resolved
  /\ Len(wrongWord.review_history) = 6
  /\ ~wrongWord.review_history[1].was_successful
  /\ ~wrongWord.review_history[2].was_successful
  /\ \A i \in 3..6 : wrongWord.review_history[i].was_successful
  /\ wrongWord.resolved_date = wrongWord.review_history[6].review_date
  /\ wrongWord.error_count = 2

\* one error on a fresh document, then three successful reviews
C9_Witness ==
  /\ wrongWord.is_resolved
  /\ Len(wrongWord.error_details) = 1
  /\ Len(wrongWord.review_history) = 3
  /\ \A i \in 1..3 : wrongWord.review_history[i].was_successful
  /\ wrongWord.resolved_date = wrongWord.review_history[3].review_date

\* C10: an addError call on a resolved document leaves it unresolved with a
\* null resolved_date, whatever its review history.
C10_ErrorReopens ==
  [][ (AddErrorStep /\ wrongWord.is_resolved) =>
        /\ wrongWord'.is_resolved = FALSE
        /\ wrongWord'.resolved_date = NullDate ]_vars

\* every review successful, and yet unresolved after a later error
C10_Witness ==
  /\ wrongWord.is_resolved = FALSE
  /\ wrongWord.resolved_date = NullDate
  /\ Len(wrongWord.review_history) >= 3
  /\ \A i \in 1..Len(wrongWord.review_history) :
       wrongWord.review_history[i].was_successful
  /\ wrongWord.last_wrong_date
       > wrongWord.review_history[Len(wrongWord.review_history)].review_date

\* a step that is one markAsUnresolved call on the document
MarkAsUnresolvedStep ==
  /\ wrongWord'.error_count = wrongWord.error_count
  /\ wrongWord'.review_history = wrongWord.review_history
  /\ now' = now

\* C11: a resolved document stays resolved under addReview, successful or
\* not; only addError or markAsUnresolved make is_resolved false again.
C11_StaysResolved ==
  [][ /\ (AddReviewStep /\ wrongWord.is_resolved) => wrongWord'.is_resolved
      /\ (wrongWord.is_resolved /\ ~wrongWord'.is_resolved) =>
           (AddErrorStep \/ MarkAsUnresolvedStep) ]_vars

\* resolved by three successful reviews, then three failed ones: the window
\* of five is at 40% and the document is still resolved
C11_Witness ==
  /\ wrongWord.is_resolved
  /\ Len(wrongWord.review_history) = 6
  /\ \A i \in 1..3 : wrongWord.review_history[i].was_successful
  /\ \A i \in 4..6 : ~wrongWord.review_history[i].was_successful
  /\ wrongWord.resolved_date = wrongWord.review_history[3].review_date
  /\ wrongWord.review_history[6].review_date > wrongWord.resolved_date

\* only correct attempts since the document was fresh (or reset)
OnlyCorrect(k) ==
  /\ Len(progress.learning_history) = k
  /\ progress.correct_attempts = k
  /\ progress.wrong_attempts = 0

\* C12: from a fresh document with ease_factor 2.5 and no userDifficulty, the
\* interval after the first, second and third recordAttempt(true) is 1, 6 and
\* 15 days, and the fifth leaves mastery_level 5 and is_mastered true.
C12_FiveCorrect ==
  /\ OnlyCorrect(1) => progress.spaced_repetition.interval = 1
  /\ OnlyCorrect(2) => progress.spaced_repetition.interval = 6
  /\ OnlyCorrect(3) => progress.spaced_repetition.interval = 15
  /\ OnlyCorrect(5) => (progress.mastery_level = 5 /\ progress.is_mastered)

C12_Witness ==
  /\ OnlyCorrect(5)
  /\ progress.mastery_level = 5
  /\ progress.is_mastered
  /\ progress.spaced_repetition.repetition = 5
  /\ progress.spaced_repetition.interval = 95

\* a step of SpecAttempts that is one resetProgress call: neither an attempt
\* nor the clock
ResetProgressStep == ~RecordAttemptStep /\ now' = now

\* C13: resetProgress yields zero counters, empty history, level 0, not
\* mastered, interval 1, ease_factor 2.5, repetition 0, zero metrics and
\* next_review = now, from any state.
C13_ResetYieldsZero ==
  [][ ResetProgressStep =>
        /\ progress'.correct_attempts = 0
        /\ progress'.wrong_attempts = 0
        /\ progress'.learning_history = <<>>
        /\ progress'.mastery_level = 0
        /\ progress'.is_mastered = FALSE
        /\ progress'.spaced_repetition.interval = 1
        /\ progress'.spaced_repetition.ease_factor = 250
        /\ progress'.spaced_repetition.repetition = 0
        /\ progress'.performance_metrics.average_response_time[1] = 0
        /\ progress'.performance_metrics.accuracy_rate[1] = 0
        /\ progress'.performance_metrics.consecutive_correct = 0
        /\ progress'.performance_metrics.consecutive_wrong = 0
        /\ progress'.performance_metrics.last_streak = 0
        /\ progress'.next_review = now ]_vars

\* a reset at a later date of a document that was attempted at that date
C13_Witness ==
  /\ progress.learning_history = <<>>
  /\ progress.correct_attempts + progress.wrong_attempts = 0
  /\ progress.last_reviewed = now
  /\ progress.next_review = now
  /\ now > 0

\* C20: on a correct attempt the interval becomes 1 when repetition was 0, 6
\* when it was 1, otherwise round(old interval x ease_factor before this
\* attempt's adjustment), and repetition grows by 1; on an incorrect attempt
\* repetition becomes 0 and interval 1; next_review is now plus interval days.
C20_ScheduleUpdate ==
  [][ RecordAttemptStep =>
        LET old == progress.spaced_repetition
            new == progress'.spaced_repetition
            h == progress'.learning_history
        IN /\ h[Len(h)].was_correct =>
                /\ new.repetition = old.repetition + 1
                /\ old.repetition = 0 => new.interval = 1
                /\ old.repetition = 1 => new.interval = 6
                /\ old.repetition >= 2 =>
                     new.interval = (2 * old.interval * old.ease_factor + 100) \div 200
           /\ ~h[Len(h)].was_correct =>
                (new.repetition = 0 /\ new.interval = 1)
           /\ progress'.next_review = now + new.interval * DayUnits ]_vars

\* three correct attempts each rated 5: the third interval is round(6 x 1.9)
C20_Witness ==
  /\ Len(progress.learning_history) = 3
  /\ \A i \in 1..3 : /\ progress.learning_history[i].was_correct
                     /\ progress.learning_history[i].difficulty_after = 5
  /\ progress.spaced_repetition.repetition = 3
  /\ progress.spaced_repetition.interval = 11
  /\ progress.spaced_repetition.ease_factor = 160

\* a step in which submitWordAnswer stores the first UserWordProgress of key
FirstSubmissionStep(key) ==
  /\ response'.handler = "submitWordAnswer"
  /\ served' = served + 1
  /\ wordProgresses[key] = NoDoc
  /\ wordProgresses'[key] # NoDoc

\* C15: when submitWordAnswer is called for a word that has no stored
\* UserWordProgress, the attempt is applied exactly once to a zero-value
\* document: after that submission correct_attempts + wrong_attempts is 1, as
\* is the length of learning_history, and the request is answered without an
\* error.
C15_FirstSubmissionCountsOnce ==
  [][ \A key \in Keys :
        FirstSubmissionStep(key) =>
          /\ total_attempts(wordProgresses'[key]) = 1
          /\ Len(wordProgresses'[key].learning_history) = 1
          /\ response'.status = 200 ]_vars

\* a step in which submitWordAnswer stores a wrong answer in WrongWords
WrongSubmissionStep(key) ==
  /\ response'.handler = "submitWordAnswer"
  /\ served' = served + 1
  /\ wrongWords'[key] # wrongWords[key]

\* C16: the k-th wrong answer submitted for a word leaves its WrongWords
\* document with error_count k and k error_details: the first one stores 1
\* and 1, every later one adds one to each.
C16_ErrorCountCountsSubmissions ==
  [][ \A key \in Keys :
        WrongSubmissionStep(key) =>
          LET before == wrongWords[key]
              after == wrongWords'[key]
          IN IF before = NoDoc
             THEN after.error_count = 1 /\ Len(after.error_details) = 1
             ELSE /\ after.error_count = before.error_count + 1
                  /\ Len(after.error_details) = Len(before.error_details) + 1 ]_vars

\* the routes that look one WrongWords document up by id and user
OwnedRoutes ==
  {"reviewWrongWord", "markAsResolved", "markAsUnresolved",
   "updateLearningNotes", "deleteWrongWord"}

\* a step serving one of those routes for a stored document of another user
ForeignRequestStep ==
  /\ served' = served + 1
  /\ response'.handler \in OwnedRoutes
  /\ wrongWords[response'.id] # NoDoc
  /\ owner(response'.id) # response'.user

\* C18: a reviewWrongWord, markAsResolved, markAsUnresolved,
\* updateLearningNotes or deleteWrongWord request made by one user with the
\* id of a WrongWords document of another user is answered 404, and every
\* WrongWords and UserWordProgress document of that other user is left as it
\* was.
C18_ForeignIdNotFound ==
  [][ ForeignRequestStep =>
        /\ response'.status = 404
        /\ \A key \in Keys :
             owner(key) = owner(response'.id) =>
               /\ wrongWords'[key] = wrongWords[key]
               /\ wordProgresses'[key] = wordProgresses[key] ]_vars

\* bob's review of alice's record was refused: her record, still without a
\* review, and her UserWordProgress are both stored
C18_Witness ==
  /\ response.handler = "reviewWrongWord"
  /\ response.user = "bob"
  /\ response.status = 404
  /\ owner(response.id) = "alice"
  /\ wrongWords[response.id] # NoDoc
  /\ wrongWords[response.id].review_history = <<>>
  /\ wordProgresses[response.id] # NoDoc

\* C14: the urgency-ordered review queue lists only unresolved records, at
\* most limit of them, in order of urgency_score descending, and of two
\* records with the same urgency_score the one with the more recent
\* last_wrong_date comes first.
C14_QueueOrder ==
  (response.handler = "getWrongWords" /\ response.sortBy = "urgency") =>
    LET listed == response.wrong_words
    IN /\ Len(listed) <= response.limit
       /\ \A i \in 1..Len(listed) : ~listed[i].is_resolved
       /\ \A i, j \in 1..Len(listed) :
            i < j =>
              /\ RatioOrder(listed[i].urgency_score, listed[j].urgency_score)
              /\ listed[i].urgency_score = listed[j].urgency_score =>
                   listed[i].last_wrong_date >= listed[j].last_wrong_date

\* C17: when submitWordAnswer requests for the same user, dictionary and
\* already tracked word are served concurrently, the stored UserWordProgress
\* is what serving them one after the other gives: every save of an attempt
\* adds one entry to learning_history and one to the counters, so no attempt
\* is lost.
C17_NoLostUpdate ==
  [][ \A key \in Keys :
        wordProgresses[key] # NoDoc =>
          LET before == wordProgresses[key]
              after == wordProgresses'[key]
          IN total_attempts(after) - total_attempts(before)
               = Len(after.learning_history) - Len(before.learning_history) ]_vars

\* C19: with userDifficulty absent or 1..5 and a non-negative response time,
\* every state reached through recordAttempt, resetProgress, markAsMastered,
\* addError and addReview is valid: mastery_level is in 0..5, interval is a
\* positive integer, repetition is not negative, accuracy_rate is in 0..100,
\* review_priority is in 1..5 and error_count is at least 1.
C19_StatesValid ==
  /\ progress.mastery_level \in 0..5
  /\ progress.spaced_repetition.interval \in Nat \ {0}
  /\ progress.spaced_repetition.repetition \in Nat
  /\ LET acc == progress.performance_metrics.accuracy_rate
     IN acc[2] > 0 /\ acc[1] >= 0 /\ acc[1] <= 100 * acc[2]
  /\ wrongWord.review_priority \in 1..5
  /\ wrongWord.error_count \in Nat \ {0}

\* both documents have moved: an incorrect attempt on a word marked as
\* mastered, and a record with three errors and a review
C19_Witness ==
  /\ progress.is_mastered
  /\ progress.wrong_attempts = 1
  /\ progress.spaced_repetition.interval = 1
  /\ Len(wrongWord.error_details) = 2
  /\ wrongWord.review_priority = 4
  /\ Len(wrongWord.review_history) = 1

\* the level of the first threshold the counters of doc meet
ThresholdLevel(doc) ==
  LET total == doc.correct_attempts + doc.wrong_attempts
      correct == doc.correct_attempts
      streak == doc.performance_metrics.consecutive_correct
  IN IF total >= 5 /\ correct * 100 >= 90 * total /\ streak >= 3 THEN 5
     ELSE IF total >= 4 /\ correct * 100 >= 80 * total /\ streak >= 2 THEN 4
     ELSE IF total >= 3 /\ correct * 100 >= 70 * total THEN 3
     ELSE IF total >= 2 /\ correct * 100 >= 50 * total THEN 2
     ELSE IF total >= 1 THEN 1
     ELSE 0

\* C21: after every recordAttempt, mastery_level is the level of the first
\* threshold met by the totals after the attempt (5, 4, 3, 2, 1 in that
\* order), less one and not below 0 when consecutive_wrong is 3 or more,
\* whatever mastery_level was before the attempt.
C21_LevelFromThresholds ==
  [][ RecordAttemptStep =>
        progress'.mastery_level =
          IF progress'.performance_metrics.consecutive_wrong >= 3
          THEN Max(0, ThresholdLevel(progress') - 1)
          ELSE ThresholdLevel(progress') ]_vars

\* a word marked as mastered, then answered wrong once: level 1 from level 5
C21_Witness ==
  /\ progress.is_mastered
  /\ progress.mastery_level = 1
  /\ progress.wrong_attempts = 1
  /\ Len(progress.learning_history) = 1

\* C22: in every state reached by recordAttempt and resetProgress at most
\* one of consecutive_correct and consecutive_wrong is not zero, and after
\* each recordAttempt last_streak is the larger of the two.
C22_OneStreak ==
  [][ LET pm == progress.performance_metrics
          pmAfter == progress'.performance_metrics
      IN /\ pm.consecutive_correct = 0 \/ pm.consecutive_wrong = 0
         /\ pmAfter.consecutive_correct = 0 \/ pmAfter.consecutive_wrong = 0
         /\ RecordAttemptStep =>
              pmAfter.last_streak =
                Max(pmAfter.consecutive_correct, pmAfter.consecutive_wrong) ]_vars

\* three correct answers and then two wrong ones: the correct streak is
\* gone and last_streak is the wrong streak
C22_Witness ==
  /\ progress.correct_attempts = 3
  /\ progress.wrong_attempts = 2
  /\ progress.performance_metrics.consecutive_correct = 0
  /\ progress.performance_metrics.consecutive_wrong = 2
  /\ progress.performance_metrics.last_streak = 2

\* C23: markAsMastered, from any state, sets mastery_level to 5, is_mastered
\* to true and next_review to 30 days from now, and leaves correct_attempts,
\* wrong_attempts, learning_history, spaced_repetition and
\* performance_metrics as they were.
C23_MarkAsMasteredFrame ==
  [][ MarkAsMastered =>
        /\ progress'.mastery_level = 5
        /\ progress'.is_mastered = TRUE
        /\ progress'.next_review = now + 30 * DayUnits
        /\ progress'.correct_attempts = progress.correct_attempts
        /\ progress'.wrong_attempts = progress.wrong_attempts
        /\ progress'.learning_history = progress.learning_history
        /\ progress'.spaced_repetition = progress.spaced_repetition
        /\ progress'.performance_metrics = progress.performance_metrics ]_vars

\* a word answered wrong three times, at level 0, then marked as mastered
C23_Witness ==
  /\ progress.is_mastered
  /\ progress.mastery_level = 5
  /\ progress.correct_attempts = 0
  /\ progress.wrong_attempts = 3
  /\ progress.performance_metrics.consecutive_wrong = 3
  /\ progress.spaced_repetition.interval = 1
  /\ progress.next_review = now + 30 * DayUnits
  /\ now > 0

\* a step in which reviewWrongWord adds a review to the stored document id
ReviewStep(id) ==
  /\ response'.handler = "reviewWrongWord"
  /\ wrongWords[id] # NoDoc
  /\ wrongWords'[id] # NoDoc
  /\ Len(wrongWords'[id].review_history) = Len(wrongWords[id].review_history) + 1

\* C24: a successful reviewWrongWord applies exactly one recordAttempt(true)
\* to the UserWordProgress of the same user, dictionary and word when there is
\* one; an unsuccessful one leaves every UserWordProgress as it was and, in
\* the WrongWords document, changes nothing but review_history (error_count,
\* review_priority and error_details among the rest), to which it appends.
C24_ReviewFeedsBack ==
  [][ \A id \in Keys :
        ReviewStep(id) =>
          LET before == wrongWords[id]
              after == wrongWords'[id]
              review == after.review_history[Len(after.review_history)]
              state == wordProgresses[id]
              stateAfter == wordProgresses'[id]
          IN /\ \A key \in Keys \ {id} : wordProgresses'[key] = wordProgresses[key]
             /\ after.error_count = before.error_count
             /\ after.review_priority = before.review_priority
             /\ after.error_details = before.error_details
             /\ IF review.was_successful
                THEN state # NoDoc =>
                       /\ stateAfter.correct_attempts = state.correct_attempts + 1
                       /\ stateAfter.wrong_attempts = state.wrong_attempts
                       /\ Len(stateAfter.learning_history)
                            = Len(state.learning_history) + 1
                       /\ stateAfter.learning_history[Len(stateAfter.learning_history)]
                            .was_correct
                ELSE /\ stateAfter = state
                     /\ after = [before EXCEPT !.review_history = after.review_history] ]_vars

\* submitWordAnswer has stopped at the word lookup of a wrong answer: the
\* UserWordProgress is saved, the WrongWords document is not
StoppedSubmission ==
  response.handler = "submitWordAnswer" /\ response.status = 500

\* C25: when a wrong-answer submitWordAnswer stops after the UserWordProgress
\* is saved and before the WrongWords document is, every stored document
\* still satisfies its own invariants: each UserWordProgress has
\* correct_attempts + wrong_attempts equal to the length of its
\* learning_history, and no WrongWords document is resolved with a null
\* resolved_date.
C25_StoppedSubmissionConsistent ==
  StoppedSubmission =>
    /\ \A key \in Keys :
         wordProgresses[key] # NoDoc =>
           total_attempts(wordProgresses[key])
             = Len(wordProgresses[key].learning_history)
    /\ \A key \in Keys :
         wrongWords[key] # NoDoc =>
           (wrongWords[key].is_resolved => wrongWords[key].resolved_date # NullDate)

\* the outcome of the review that the step recorded
LastReviewSuccessful(doc) ==
  doc.review_history[Len(doc.review_history)].was_successful

\* C26: an addReview with wasSuccessful = false never changes a document
\* from unresolved to resolved, whatever addError, addReview, markAsResolved
\* and markAsUnresolved calls came before it.
C26_FailedReviewNeverResolves ==
  [][ (AddReviewStep /\ ~LastReviewSuccessful(wrongWord') /\ ~wrongWord.is_resolved)
        => ~wrongWord'.is_resolved ]_vars

\* the document after the reviews with the given outcomes, in order
reviewsApplied(doc, outcomes, t) ==
  IF Len(outcomes) = 0 THEN doc
  ELSE IF Len(outcomes) = 1
       THEN addReview(doc, outcomes[1], "study", 0, 3, t)
       ELSE addReview(addReview(doc, outcomes[1], "study", 0, 3, t),
                      outcomes[2], "study", 0, 3, t)

\* C27: when addError reopens a resolved document, addReview does not
\* resolve it again before three reviews have been recorded after that
\* error: the document is still unresolved after one and after two further
\* reviews, whatever their outcomes.
C27_ReopenedNeedsThreeReviews ==
  [][ (AddErrorStep /\ wrongWord.is_resolved) =>
        \A first \in BOOLEAN, second \in BOOLEAN :
          /\ ~reviewsApplied(wrongWord', <<first>>, now').is_resolved
          /\ ~reviewsApplied(wrongWord', <<first, second>>, now').is_resolved ]_vars

\* C28: every record getWrongWords returns for a request that names a
\* dictionaryId belongs to that dictionary, whatever sortBy is, the default
\* 'urgency' included.
C28_FilteredByDictionary ==
  (response.handler = "getWrongWords" /\ response.dictionaryId \in Dictionaries) =>
    \A i \in 1..Len(response.wrong_words) :
      dictionaryOf(response.wrong_words[i].id) = response.dictionaryId

\* C29: in every UserWordProgress reached from the defaults by recordAttempt,
\* resetProgress and markAsMastered, spaced_repetition.repetition equals
\* performance_metrics.consecutive_correct.
C29_RepetitionIsCorrectStreak ==
  progress.spaced_repetition.repetition
    = progress.performance_metrics.consecutive_correct

\* a streak of two correct answers that began after a wrong answer, on a
\* document then marked as mastered
C29_Witness ==
  /\ progress.spaced_repetition.repetition = 2
  /\ progress.performance_metrics.consecutive_correct = 2
  /\ progress.wrong_attempts = 1
  /\ progress.mastery_level = 5
  /\ Len(progress.learning_history) = 3

\* a step that is resetProgress of the UserDictionary under the key
ResetDictionaryStep(at) ==
  /\ userDictionaries'[at].status = "not_started"
  /\ userDictionaries'[at].completed_words = 0
  /\ userDictionaries'[at].current_position = 0
  /\ userDictionaries'[at].completed_at = NullDate

\* C30: a UserDictionary whose status is 'completed' keeps that status under
\* submitWordAnswer, startDictionary, updateProgress, pauseDictionary and
\* resumeDictionary; only resetProgress changes it.  In every saved
\* document completed_words and current_position are at most total_words.
C30_CompletedStaysCompleted ==
  [][ \A at \in Users \X Dictionaries :
        LET before == userDictionaries[at]
            after == userDictionaries'[at]
        IN /\ (before # NoDoc /\ before.status = "completed"
                 /\ after.status # "completed") => ResetDictionaryStep(at)
           /\ after # NoDoc =>
                /\ after.completed_words <= after.total_words
                /\ after.current_position <= after.total_words ]_vars

====
